---- MODULE Spec2Model ----
(***************************************************************************)
(* Authentication and session handling of node-next-registration:          *)
(*   registration-ui : the pre-render route gate (middleware.ts), the      *)
(*                     dashboard page's own server-side redirect           *)
(*   registration-api: token issuance (auth.service.ts, lib/jwt.ts), the   *)
(*                     bearer guard (middleware/auth.ts), the config       *)
(*                     schema (config.ts)                                  *)
(* Spec    is the browser/UI-server side: navigations through the gate.    *)
(* SpecApi is the API side: startup, login, privileged requests.           *)
(***************************************************************************)
EXTENDS Integers, Sequences, FiniteSets, TLC

VARIABLES
  now,      \* the clock, whole seconds: Math.floor(Date.now() / 1000)
  jar,      \* the browser's cookie jar: cookie name -> token value
  nav,      \* the navigation in progress: phase, url, redirects followed
  res,      \* the response produced by the last gate or page evaluation
  seen,     \* what the last gate evaluation read: url, cookies, clock
  shown,    \* pathname of the page rendered last ("" when none yet)
  env,      \* process.env of the API, as read at startup
  CONFIG,   \* envSchema.parse(process.env) once the API is up
  api,      \* API process status: "starting" | "up" | "crashed"
  users,    \* the users table: id, name, username, email, password (hash)
  issued,   \* the token pairs returned by successful logins, in order
  reply,    \* the last API reply: status, body, whether a handler ran
  call,     \* the last login request and the steps authenticate took for it
  sent,     \* the payload of the last API reply: its fields and tokens
  ls,       \* localStorage of the origin: key -> token value
  jarAge,   \* the instant at which each cookie of the jar expires (Max-Age)
  tokenWatchTimer,  \* UserServiceImpl.tokenWatchTimer: interval id, 0 = undefined
  obs,      \* the observeToken calls: status, `last`, listener, last callback
  intervals,        \* ids of the window's live setInterval timers
  due,      \* the live intervals that have not fired yet in this poll interval
  events,   \* the storage events queued for this window
  submit,   \* the login form's submit: where it stands, what login() stored
  request,  \* the request of HttpClient in flight, with the token it carries
  did       \* the last operation on the session, with its arguments

sessVars == <<ls, jarAge, tokenWatchTimer, obs, intervals, due, events, submit,
              request, did>>
vars == <<now, jar, nav, res, seen, shown, env, CONFIG, api, users, issued, reply,
          call, sent, sessVars>>
uiVars == <<jar, nav, res, seen, shown, sessVars>>
apiVars == <<env, CONFIG, api, users, issued, reply, call, sent>>

(***************************************************************************)
(* Bounds                                                                  *)
(***************************************************************************)
MaxNow == 4
MaxLogins == 1
MaxIdle == 1
MaxUsers == 3
MaxObservers == 2
MaxEvents == 2

(***************************************************************************)
(* lib/constants.ts                                                        *)
(***************************************************************************)
PAGE_LINKS == [REGISTER |-> "/register", LOGIN |-> "/login",
               PROFILE |-> "/profile", DASHBOARD |-> "/dashboard"]
TOKENS == [ACCESS |-> "accessToken", REFRESH |-> "refreshToken"]

(***************************************************************************)
(* Token values.  A cookie or bearer value is one of                       *)
(*   absent   no such cookie / header value                                *)
(*   empty    the empty string                                             *)
(*   opaque   a string that does not split into three dot-separated parts  *)
(*   badjson  three parts, the middle one not base64 JSON                  *)
(*   jwt      header.claims.signature: alg is the header's algorithm, key  *)
(*            the secret the signature was made with ("" = no valid        *)
(*            signature), claims the decoded payload                       *)
(***************************************************************************)
NoClaims == [c \in {} |-> 0]
Plain(form) == [form |-> form, alg |-> "", key |-> "", claims |-> NoClaims]
Absent == Plain("absent")
Jwt(alg, key, claims) == [form |-> "jwt", alg |-> alg, key |-> key, claims |-> claims]

StartsWith(s, p) == Len(s) >= Len(p) /\ SubSeq(s, 1, Len(p)) = p


(***************************************************************************)
(* URLs: a pathname and the ordered query parameters (decoded).            *)
(***************************************************************************)
Url(pathname, params) == [pathname |-> pathname, params |-> params]
Param(k, v) == [key |-> k, val |-> v]

RECURSIVE Join(_)
Join(params) ==
  IF params = <<>> THEN ""
  ELSE params[1].key \o "=" \o params[1].val \o
       (IF Len(params) = 1 THEN "" ELSE "&" \o Join(Tail(params)))

\* URL.search: "" without parameters, otherwise "?" and the parameters
Search(params) == IF params = <<>> THEN "" ELSE "?" \o Join(params)

\* URLSearchParams.has
HasParam(params, k) == \E i \in 1..Len(params) : params[i].key = k

\* URLSearchParams.get: the first value of the name
GetParam(params, k) ==
  params[CHOOSE i \in 1..Len(params) :
           params[i].key = k /\ \A j \in 1..(i-1) : params[j].key # k].val

\* URLSearchParams.set: overwrite the first occurrence and drop the others,
\* or append when the name is not there
SetParam(params, k, v) ==
  IF HasParam(params, k)
  THEN LET first == CHOOSE i \in 1..Len(params) :
                      params[i].key = k /\ \A j \in 1..(i-1) : params[j].key # k
           keep  == {i \in 1..Len(params) : params[i].key # k \/ i = first}
           nth(n) == CHOOSE i \in keep : Cardinality({j \in keep : j < i}) = n - 1
       IN [n \in 1..Cardinality(keep) |->
             IF nth(n) = first THEN Param(k, v) ELSE params[nth(n)]]
  ELSE Append(params, Param(k, v))

(***************************************************************************)
(* middleware.ts                                                           *)
(***************************************************************************)
\* a JS string that is truthy: present and not ""
Truthy(token) == token.form \notin {"absent", "empty"}

\* isExpiredJwt with `<` for `<=`
isExpiredJwtStrict(token, clock) ==
  IF ~Truthy(token) THEN TRUE
  ELSE IF token.form \in {"opaque", "badjson"} THEN TRUE
  ELSE IF "exp" \notin DOMAIN token.claims THEN FALSE
  ELSE token.claims.exp < clock

\* isExpiredJwt that takes a payload without a numeric exp for expired
isExpiredJwtExpRequired(token, clock) ==
  IF ~Truthy(token) THEN TRUE
  ELSE IF token.form \in {"opaque", "badjson"} THEN TRUE
  ELSE IF "exp" \notin DOMAIN token.claims THEN TRUE
  ELSE token.claims.exp <= clock

isExpiredJwt(token, clock) ==
  IF ~Truthy(token) THEN TRUE                       \* if (!token) return true
  ELSE IF token.form = "opaque" THEN TRUE           \* parts.length !== 3
  ELSE IF token.form = "badjson" THEN TRUE          \* JSON.parse throws
  ELSE IF "exp" \notin DOMAIN token.claims THEN FALSE  \* typeof exp !== 'number'
  ELSE token.claims.exp <= clock

isProtected(pathname) ==
  StartsWith(pathname, PAGE_LINKS.DASHBOARD) \/ StartsWith(pathname, PAGE_LINKS.PROFILE)

isAuthPage(pathname) ==
  pathname = PAGE_LINKS.LOGIN \/ pathname = PAGE_LINKS.REGISTER

authed(cookies, clock) ==
  Truthy(cookies[TOKENS.ACCESS]) /\ ~isExpiredJwt(cookies[TOKENS.ACCESS], clock)

\* config.matcher: '/dashboard/:path*', '/profile/:path*', '/login', '/register'
matcher(pathname) ==
  \/ pathname = PAGE_LINKS.DASHBOARD \/ StartsWith(pathname, PAGE_LINKS.DASHBOARD \o "/")
  \/ pathname = PAGE_LINKS.PROFILE \/ StartsWith(pathname, PAGE_LINKS.PROFILE \o "/")
  \/ pathname = PAGE_LINKS.LOGIN
  \/ pathname = PAGE_LINKS.REGISTER

\* the cookies a gate response deletes: the access cookie only when its
\* value is truthy, the refresh cookie always
GateDeletes(cookies) ==
  (IF Truthy(cookies[TOKENS.ACCESS]) THEN {TOKENS.ACCESS} ELSE {}) \cup {TOKENS.REFRESH}

Redirect(url, deleted) == [kind |-> "redirect", by |-> "gate", url |-> url, deleted |-> deleted]
PassThrough(url, deleted) == [kind |-> "next", by |-> "gate", url |-> url, deleted |-> deleted]

\* middleware with the authed-auth-page rule tried before the `next` rule
middlewareAuthedFirst(url, cookies, clock) ==
  LET pathname == url.pathname
      ok       == authed(cookies, clock)
  IN IF isProtected(pathname) /\ ~ok
       THEN Redirect(Url(PAGE_LINKS.LOGIN,
                         SetParam(url.params, "next", pathname \o Search(url.params))),
                     GateDeletes(cookies))
     ELSE IF isAuthPage(pathname) /\ ok
       THEN Redirect(Url(PAGE_LINKS.DASHBOARD, <<>>), {})
     ELSE IF isAuthPage(pathname) /\ HasParam(url.params, "next")
       THEN PassThrough(url, GateDeletes(cookies))
     ELSE PassThrough(url, {})

\* middleware that forgets `url.search = ''` on the redirect to the dashboard
middlewareKeepSearch(url, cookies, clock) ==
  LET pathname == url.pathname
      hasNext  == HasParam(url.params, "next")
      ok       == authed(cookies, clock)
  IN IF isProtected(pathname) /\ ~ok
       THEN Redirect(Url(PAGE_LINKS.LOGIN,
                         SetParam(url.params, "next", pathname \o Search(url.params))),
                     GateDeletes(cookies))
     ELSE IF isAuthPage(pathname) /\ hasNext
       THEN PassThrough(url, GateDeletes(cookies))
     ELSE IF isAuthPage(pathname) /\ ok /\ ~hasNext
       THEN Redirect(Url(PAGE_LINKS.DASHBOARD, url.params), {})
     ELSE PassThrough(url, {})

\* middleware that clears the token cookies on every auth page it lets render
middlewareClearOnAuthPage(url, cookies, clock) ==
  LET pathname == url.pathname
      hasNext  == HasParam(url.params, "next")
      ok       == authed(cookies, clock)
  IN IF isProtected(pathname) /\ ~ok
       THEN Redirect(Url(PAGE_LINKS.LOGIN,
                         SetParam(url.params, "next", pathname \o Search(url.params))),
                     GateDeletes(cookies))
     ELSE IF isAuthPage(pathname) /\ (hasNext \/ ~ok)
       THEN PassThrough(url, GateDeletes(cookies))
     ELSE IF isAuthPage(pathname) /\ ok /\ ~hasNext
       THEN Redirect(Url(PAGE_LINKS.DASHBOARD, <<>>), {})
     ELSE PassThrough(url, {})

middleware(url, cookies, clock) ==
  LET pathname == url.pathname
      hasNext  == HasParam(url.params, "next")
      ok       == authed(cookies, clock)
  IN IF isProtected(pathname) /\ ~ok
       THEN Redirect(Url(PAGE_LINKS.LOGIN,
                         SetParam(url.params, "next", pathname \o Search(url.params))),
                     GateDeletes(cookies))
     ELSE IF isAuthPage(pathname) /\ hasNext
       THEN PassThrough(url, GateDeletes(cookies))
     ELSE IF isAuthPage(pathname) /\ ok /\ ~hasNext
       THEN Redirect(Url(PAGE_LINKS.DASHBOARD, <<>>), {})
     ELSE PassThrough(url, {})

\* the browser applies the response's cookie deletions
ApplyDeletes(cookies, deleted) ==
  [c \in DOMAIN cookies |-> IF c \in deleted THEN Absent ELSE cookies[c]]


(***************************************************************************)
(* Strings: what the code's string functions do, character by character.   *)
(***************************************************************************)
Digits == "0123456789"
Upper == "ABCDEFGHIJKLMNOPQRSTUVWXYZ"
LowerCase == "abcdefghijklmnopqrstuvwxyz"

CharAt(s, i) == SubSeq(s, i, i)
IsDigit(c) == \E i \in 1..10 : CharAt(Digits, i) = c
DigitVal(c) == (CHOOSE i \in 1..10 : CharAt(Digits, i) = c) - 1

\* String.prototype.includes for a one-character needle
Includes(s, c) == \E i \in 1..Len(s) : CharAt(s, i) = c

LowerChar(c) ==
  IF \E i \in 1..26 : CharAt(Upper, i) = c
  THEN CharAt(LowerCase, CHOOSE i \in 1..26 : CharAt(Upper, i) = c)
  ELSE c

RECURSIVE toLowerCase(_)
toLowerCase(s) ==
  IF s = "" THEN "" ELSE LowerChar(CharAt(s, 1)) \o toLowerCase(SubSeq(s, 2, Len(s)))

(***************************************************************************)
(* The `ms` package, for the forms a TTL can take here: an optional "-",   *)
(* decimal digits, and an optional unit; no unit means milliseconds.       *)
(* Anything else does not convert to a number.                             *)
(***************************************************************************)
UnitMs(u) ==
  CASE u = "" -> 1 [] u = "ms" -> 1 [] u = "s" -> 1000 [] u = "m" -> 60000
    [] u = "h" -> 3600000 [] u = "d" -> 86400000 [] u = "w" -> 604800000
    [] OTHER -> 0

RECURSIVE DigitsEnd(_, _)
\* index of the last character of the digit run that starts at i (i-1 if none)
DigitsEnd(s, i) ==
  IF i <= Len(s) /\ IsDigit(CharAt(s, i)) THEN DigitsEnd(s, i + 1) ELSE i - 1

RECURSIVE ParseNat(_, _)
ParseNat(s, acc) ==
  IF s = "" THEN acc
  ELSE ParseNat(SubSeq(s, 2, Len(s)), acc * 10 + DigitVal(CharAt(s, 1)))

NaN == [nan |-> TRUE, v |-> 0]
Num(n) == [nan |-> FALSE, v |-> n]

ms(str) ==
  LET neg   == Len(str) >= 1 /\ CharAt(str, 1) = "-"
      from  == IF neg THEN 2 ELSE 1
      upto  == DigitsEnd(str, from)
      unit  == SubSeq(str, upto + 1, Len(str))
  IN IF upto < from \/ UnitMs(unit) = 0 THEN NaN
     ELSE LET n == ParseNat(SubSeq(str, from, upto), 0) * UnitMs(unit)
          IN Num(IF neg THEN 0 - n ELSE n)

(***************************************************************************)
(* lib/jwt.ts over jsonwebtoken                                            *)
(***************************************************************************)
\* expiresIn: Math.floor(ms(ttl) / 1000); NaN stays NaN
expiresIn(ttl) == IF ms(ttl).nan THEN NaN ELSE Num(ms(ttl).v \div 1000)

\* jwt.sign refuses an expiresIn that is not an integer: the promise rejects
signRejects(ttl) == expiresIn(ttl).nan

\* the token signJwt resolves with: HS256, iat = clock, exp = iat + expiresIn
signJwt(payload, secret, ttl, clock) ==
  Jwt("HS256", secret,
      payload @@ [iat |-> clock, exp |-> clock + expiresIn(ttl).v])

\* jwt.verify called without the `algorithms` option
verifyThrowsAnyAlg(token, secret, clock) ==
  \/ token.form # "jwt"
  \/ token.key # secret
  \/ ("exp" \in DOMAIN token.claims /\ clock >= token.claims.exp)

\* jwt.verify(token, secret, { algorithms: ['HS256'] }): the payload, or throws
verifyThrows(token, secret, clock) ==
  \/ token.form # "jwt"                              \* malformed / not provided
  \/ token.alg # "HS256"                             \* invalid algorithm
  \/ token.key # secret                              \* invalid signature
  \/ ("exp" \in DOMAIN token.claims /\ clock >= token.claims.exp)  \* jwt expired

verifyJwt(token, secret, clock) ==
  IF verifyThrows(token, secret, clock)
  THEN [ok |-> FALSE, payload |-> NoClaims]
  ELSE [ok |-> TRUE, payload |-> token.claims]

(***************************************************************************)
(* config.ts: envSchema.parse(process.env)                                 *)
(***************************************************************************)
MinSecretLen == 32
DefaultAccessTtl == "10m"
DefaultRefreshTtl == "7d"

envAccepted(e) ==
  /\ "JWT_ACCESS_SECRET" \in DOMAIN e /\ Len(e.JWT_ACCESS_SECRET) >= MinSecretLen
  /\ "JWT_REFRESH_SECRET" \in DOMAIN e /\ Len(e.JWT_REFRESH_SECRET) >= MinSecretLen

envParse(e) ==
  [JWT_ACCESS_SECRET  |-> e.JWT_ACCESS_SECRET,
   JWT_REFRESH_SECRET |-> e.JWT_REFRESH_SECRET,
   JWT_ACCESS_TTL  |-> IF "JWT_ACCESS_TTL" \in DOMAIN e THEN e.JWT_ACCESS_TTL ELSE DefaultAccessTtl,
   JWT_REFRESH_TTL |-> IF "JWT_REFRESH_TTL" \in DOMAIN e THEN e.JWT_REFRESH_TTL ELSE DefaultRefreshTtl]

(***************************************************************************)
(* middleware/auth.ts: authGuard                                           *)
(* A request's Authorization header is a scheme and a credential;          *)
(* scheme "" is a missing header.                                          *)
(***************************************************************************)
RESPONSE_TEXTS == [INVALID_CREDENTIALS |-> "Invalid credentials",
                   USER_NOT_FOUND |-> "User not found",
                   UNAUTHORIZED |-> "Unauthorized",
                   INVALID_INPUT |-> "Invalid input",
                   EMAIL_EXISTS |-> "Email already in use",
                   USERNAME_EXISTS |-> "Username already in use"]

Header(scheme, token) == [scheme |-> scheme, token |-> token]
NoHeader == Header("", Absent)

Unauthorized == [status |-> 401, body |-> RESPONSE_TEXTS.UNAUTHORIZED]

\* the subject a verified payload carries, "" when it carries none
SubOf(payload) == IF "sub" \in DOMAIN payload THEN payload.sub ELSE ""

\* [pass |-> TRUE, userId] when the guard lets the request on, else the 401
authGuard(h, cfg, clock) ==
  LET token == IF h.scheme = "Bearer" THEN h.token ELSE Absent
      v     == verifyJwt(token, cfg.JWT_ACCESS_SECRET, clock)
  IN IF ~Truthy(token) THEN [pass |-> FALSE, userId |-> ""]
     ELSE IF ~v.ok THEN [pass |-> FALSE, userId |-> ""]
     ELSE IF SubOf(v.payload) = "" THEN [pass |-> FALSE, userId |-> ""]
     ELSE [pass |-> TRUE, userId |-> v.payload.sub]


(***************************************************************************)
(* services/auth.service.ts: authenticate                                  *)
(* A bcrypt hash is the string "$2a$10$" followed by the digest, and the    *)
(* digest is modelled by the password it was made from;                    *)
(* bcrypt.compare(p, h) holds exactly when h was made from p.              *)
(***************************************************************************)
bcryptHash(password) == "$2a$10$" \o password
bcryptCompare(password, hash) == hash = bcryptHash(password)
DUMMY_HASH == bcryptHash("invalid-password")

\* a lookup that compares usernames without regard to letter case
findRowsAnyCase(table, identifier) ==
  {u \in table :
     \/ toLowerCase(u.username) = toLowerCase(identifier)
     \/ Includes(identifier, "@") /\ u.email = toLowerCase(identifier)}

\* the rows db.query.users.findFirst may return for the where clause
findRows(table, identifier) ==
  LET isEmail   == Includes(identifier, "@")
      emailNorm == toLowerCase(identifier)
  IN {u \in table :
        \/ u.username = identifier
        \/ IF isEmail THEN u.email = emailNorm ELSE u.username = "__nope__"}

\* row is the row found, or NoRow; the result's user is "" for { user: null }
NoRow == [id |-> "", name |-> "", username |-> "", email |-> "", password |-> bcryptHash("")]

\* an access payload whose subject is the username instead of the id
accessPayloadByName(row) == [sub |-> row.username, username |-> row.username]

accessPayload(row) == [sub |-> row.id, username |-> row.username]
refreshPayload(row) == [sub |-> row.id, type |-> "refresh"]

\* authenticate once the row is looked up; clockA and clockR are the clock
\* readings of the two signJwt calls
authenticate(row, password, cfg, clockA, clockR) ==
  LET hashToCheck == IF row = NoRow THEN DUMMY_HASH ELSE row.password
      ok          == bcryptCompare(password, hashToCheck)
  IN IF row = NoRow \/ ~ok
     THEN [user |-> "", accessToken |-> Absent, refreshToken |-> Absent]
     ELSE [user |-> row.id,
           accessToken  |-> signJwt(accessPayload(row), cfg.JWT_ACCESS_SECRET,
                                    cfg.JWT_ACCESS_TTL, clockA),
           refreshToken |-> signJwt(refreshPayload(row), cfg.JWT_REFRESH_SECRET,
                                    cfg.JWT_REFRESH_TTL, clockR)]

\* the statements one call of authenticate executes, in order: the lookup,
\* the comparison with the hash it is given, the signJwt calls, the exit
Step(op, arg) == [op |-> op, arg |-> arg]

\* authenticate that skips the comparison when no row was found
authenticateStepsEarlyExit(row, password, cfg) ==
  IF row = NoRow
  THEN <<Step("findFirst", ""), Step("return", "")>>
  ELSE <<Step("findFirst", ""), Step("bcrypt.compare", row.password)>> \o
       (IF ~bcryptCompare(password, row.password)
        THEN <<Step("return", "")>>
        ELSE <<Step("signJwt", "access"), Step("signJwt", "refresh"), Step("return", "")>>)

authenticateSteps(row, password, cfg) ==
  LET hashToCheck == IF row = NoRow THEN DUMMY_HASH ELSE row.password
      ok          == bcryptCompare(password, hashToCheck)
      lookup      == <<Step("findFirst", ""), Step("bcrypt.compare", hashToCheck)>>
  IN IF row = NoRow \/ ~ok
     THEN lookup \o <<Step("return", "")>>
     ELSE IF signRejects(cfg.JWT_ACCESS_TTL)
     THEN lookup \o <<Step("signJwt", "access"), Step("throw", "")>>
     ELSE IF signRejects(cfg.JWT_REFRESH_TTL)
     THEN lookup \o <<Step("signJwt", "access"), Step("signJwt", "refresh"),
                      Step("throw", "")>>
     ELSE lookup \o <<Step("signJwt", "access"), Step("signJwt", "refresh"),
                      Step("return", "")>>

\* the PublicUser object authenticate builds from the row
publicUser(row) ==
  [id |-> row.id, name |-> row.name, username |-> row.username, email |-> row.email]

\* authenticate throws when a signJwt promise rejects
authenticateThrows(row, password, cfg) ==
  /\ row # NoRow
  /\ bcryptCompare(password, row.password)
  /\ signRejects(cfg.JWT_ACCESS_TTL) \/ signRejects(cfg.JWT_REFRESH_TTL)

(***************************************************************************)
(* routes/auth.route.ts: the login body schema                             *)
(***************************************************************************)
IdentifierMinLength == 1
PasswordMinLength == 6

loginBodyValid(identifier, password) ==
  Len(identifier) >= IdentifierMinLength /\ Len(password) >= PasswordMinLength


(***************************************************************************)
(* controllers/user.controller.ts and services/profile.service.ts:         *)
(* the three handlers behind the guard.  A request body carries the        *)
(* outcome of its schema validation and the fields the services write.     *)
(***************************************************************************)
ME == "GET /api/profile/me"
PERSONAL == "PUT /api/profile/personal"
ACCOUNT == "PUT /api/profile/account"
LOGIN == "POST /api/auth/login"
REGISTER == "POST /api/auth/register"
PrivilegedEndpoints == {ME, PERSONAL, ACCOUNT}

Body(valid, name, email, username, password) ==
  [valid |-> valid, name |-> name, email |-> email,
   username |-> username, password |-> password]
NoBody == Body(FALSE, "", "", "", "")

\* the payload of a reply: the string fields of its JSON body, flattened, and
\* the tokens it carries
NoFields == [f \in {} |-> ""]
Sent(status, body, tokens) == [status |-> status, body |-> body, tokens |-> tokens]
NoSent == Sent(0, NoFields, NoFields)

\* Fastify's default error reply for an error thrown in a handler
InternalError(message) ==
  Sent(500, [statusCode |-> "500", error |-> "Internal Server Error", message |-> message],
       NoFields)

Reply(endpoint, status, body, ran, userId, h, clock) ==
  [endpoint |-> endpoint, status |-> status, body |-> body,
   handlerRan |-> ran, userId |-> userId, header |-> h, at |-> clock]

\* updatePersonalService: set name and email of the rows with that id
updatePersonalService(table, userId, b) ==
  {IF u.id = userId THEN [u EXCEPT !.name = b.name, !.email = b.email] ELSE u : u \in table}

\* updateAccountService whose where clause selects the other rows
updateAccountServiceOthers(table, userId, b) ==
  {IF u.id # userId
   THEN [u EXCEPT !.username = IF b.username # "" THEN b.username ELSE @,
                  !.password = IF b.password # "" THEN bcryptHash(b.password) ELSE @]
   ELSE u : u \in table}

\* updateAccountService: username and password, each only when truthy
updateAccountService(table, userId, b) ==
  {IF u.id = userId
   THEN [u EXCEPT !.username = IF b.username # "" THEN b.username ELSE @,
                  !.password = IF b.password # "" THEN bcryptHash(b.password) ELSE @]
   ELSE u : u \in table}

\* the unique indexes users_email_unique and users_username_unique
uniqueOk(table) ==
  \A u, w \in table : u # w => (u.id # w.id /\ u.email # w.email /\ u.username # w.username)

\* getMeService with every column selected
getMeServiceAllColumns(table, userId) ==
  {[id |-> u.id, name |-> u.name, email |-> u.email, username |-> u.username,
    password |-> u.password] : u \in {w \in table : w.id = userId}}

\* getMeService: the selected columns of the rows with that id
getMeService(table, userId) ==
  {[id |-> u.id, name |-> u.name, email |-> u.email, username |-> u.username] :
     u \in {w \in table : w.id = userId}}

\* [status, body, data, table] of the handler run for userId; data is the
\* JSON body sent
handle(endpoint, userId, b, table) ==
  IF endpoint = ME
  THEN IF getMeService(table, userId) # {}
       THEN [status |-> 200, body |-> "me", table |-> table,
             data |-> CHOOSE me \in getMeService(table, userId) : TRUE]
       ELSE [status |-> 404, body |-> RESPONSE_TEXTS.USER_NOT_FOUND, table |-> table,
             data |-> [message |-> RESPONSE_TEXTS.USER_NOT_FOUND]]
  ELSE IF ~b.valid
  THEN [status |-> 400, body |-> RESPONSE_TEXTS.INVALID_INPUT, table |-> table,
        data |-> [message |-> RESPONSE_TEXTS.INVALID_INPUT]]
  ELSE LET new == IF endpoint = PERSONAL
                  THEN updatePersonalService(table, userId, b)
                  ELSE updateAccountService(table, userId, b)
       IN IF uniqueOk(new) /\ Cardinality(new) = Cardinality(table)
          THEN [status |-> 204, body |-> "", table |-> new, data |-> NoFields]
          ELSE [status |-> 500, body |-> "Internal Server Error", table |-> table,
                data |-> InternalError("duplicate key value violates unique constraint").body]

(***************************************************************************)
(* The API process                                                         *)
(***************************************************************************)
S1 == "0123456789abcdef0123456789abcdef"
S2 == "fedcba9876543210fedcba9876543210"
ShortSecret == "0123456789abcdef0123456789abcde"

AccessTtls == {"2s", "500ms", "7d", "abc"}
RefreshTtls == {"3s"}

WithOpt(e, k, vals) == {e} \cup {e @@ (k :> v) : v \in vals}

Envs ==
  LET secrets == {("JWT_ACCESS_SECRET" :> a) @@ ("JWT_REFRESH_SECRET" :> S2) :
                     a \in {S1, ShortSecret}}
                 \cup {"JWT_ACCESS_SECRET" :> S1}
      withA   == UNION {WithOpt(e, "JWT_ACCESS_TTL", AccessTtls) : e \in secrets}
  IN UNION {WithOpt(e, "JWT_REFRESH_TTL", RefreshTtls) : e \in withA}

RefEnv == ("JWT_ACCESS_SECRET" :> S1) @@ ("JWT_REFRESH_SECRET" :> S2)

NoConfig == [JWT_ACCESS_SECRET |-> "", JWT_REFRESH_SECRET |-> "",
             JWT_ACCESS_TTL |-> "", JWT_REFRESH_TTL |-> ""]

User(id, name, username, email, password) ==
  [id |-> id, name |-> name, username |-> username, email |-> email,
   password |-> bcryptHash(password)]

Users0 == {User("u1", "Alice", "alice", "alice@x.io", "alice-pw"),
           User("u2", "Bob", "bob", "bob@x.io", "bobs-pw")}

Identifiers == {"alice", "Alice@X.io", "bob", "nobody", ""}
Passwords == {"alice-pw", "bobs-pw", "short"}

NoReply == Reply("", 0, "", FALSE, "", NoHeader, 0)

\* a login request as authenticate saw it: the row found and the steps taken
\* (no steps when the handler answered before calling authenticate)
Call(identifier, password, row, steps) ==
  [identifier |-> identifier, password |-> password, row |-> row, steps |-> steps]
NoCall == Call("", "", NoRow, <<>>)

\* the 401 of the login handler
InvalidCredentials ==
  Sent(401, [success |-> "false", error |-> RESPONSE_TEXTS.INVALID_CREDENTIALS], NoFields)

\* the route without attachValidation: Fastify answers a schema failure itself
attachValidationOff == FALSE

\* the route option attachValidation: the handler runs on a schema failure
attachValidation == TRUE

\* the answer to a body that fails loginSchema
schemaFailed(attached) ==
  IF attached
  THEN InvalidCredentials
  ELSE Sent(400, [statusCode |-> "400", error |-> "Bad Request",
                  message |-> "body must have required property"], NoFields)

\* the server starts: config.ts parses the environment or the process dies
Startup ==
  /\ api = "starting"
  /\ IF envAccepted(env)
     THEN api' = "up" /\ CONFIG' = envParse(env)
     ELSE api' = "crashed" /\ UNCHANGED CONFIG
  /\ UNCHANGED <<now, env, users, issued, reply, call, sent, uiVars>>

\* POST /api/auth/login
Login(identifier, password, row, tick) ==
  /\ api = "up"
  /\ Len(issued) < MaxLogins
  /\ row \in findRows(users, identifier) \/ (row = NoRow /\ findRows(users, identifier) = {})
  /\ IF ~loginBodyValid(identifier, password)
     THEN /\ LET out == schemaFailed(attachValidation)
             IN /\ reply' = Reply(LOGIN, out.status, out.body.error, out.status = 401,
                                  "", NoHeader, now)
                /\ sent' = out
          /\ call' = Call(identifier, password, NoRow, <<>>)
          /\ UNCHANGED <<now, issued>>
     ELSE IF authenticateThrows(row, password, CONFIG)
     THEN /\ reply' = Reply(LOGIN, 500, "Internal Server Error", TRUE, "", NoHeader, now)
          /\ sent' = InternalError("\"expiresIn\" should be a number of seconds or string representing a timespan")
          /\ call' = Call(identifier, password, row, authenticateSteps(row, password, CONFIG))
          /\ UNCHANGED <<now, issued>>
     ELSE LET r == authenticate(row, password, CONFIG, now, now + tick)
          IN /\ call' = Call(identifier, password, row, authenticateSteps(row, password, CONFIG))
             /\ IF r.user = "" \/ ~Truthy(r.accessToken) \/ ~Truthy(r.refreshToken)
                THEN /\ reply' = Reply(LOGIN, 401, RESPONSE_TEXTS.INVALID_CREDENTIALS, TRUE, "", NoHeader, now)
                     /\ sent' = InvalidCredentials
                     /\ UNCHANGED <<now, issued>>
                ELSE /\ reply' = Reply(LOGIN, 200, "ok", TRUE, r.user, NoHeader, now + tick)
                     /\ sent' = Sent(200, [success |-> "true"] @@ publicUser(row),
                                     [accessToken |-> r.accessToken,
                                      refreshToken |-> r.refreshToken])
                     /\ issued' = Append(issued, r)
                     /\ now' = now + tick
  /\ UNCHANGED <<env, CONFIG, api, users, uiVars>>


\* credentials a caller can put behind "Authorization:": the tokens the API
\* issued, and tokens made elsewhere
Forged ==
  {Plain("empty"), Plain("opaque"), Plain("badjson"),
   Jwt("HS256", "guess", [sub |-> "u1"]),                    \* bad signature
   Jwt("none", "", [sub |-> "u1"]),                          \* unsigned
   Jwt("HS512", CONFIG.JWT_ACCESS_SECRET, [sub |-> "u1"]),   \* other algorithm
   Jwt("HS256", CONFIG.JWT_ACCESS_SECRET, [username |-> "alice"]),  \* no subject
   Jwt("HS256", CONFIG.JWT_ACCESS_SECRET, [sub |-> ""]),     \* empty subject
   Jwt("HS256", CONFIG.JWT_ACCESS_SECRET, [sub |-> "u9"])}   \* no such user

AccessTokens == {issued[i].accessToken : i \in 1..Len(issued)}
RefreshTokens == {issued[i].refreshToken : i \in 1..Len(issued)}
IssuedTokens == AccessTokens \cup RefreshTokens

BearerIssued == {Header("Bearer", t) : t \in IssuedTokens}

Headers ==
  {NoHeader} \cup BearerIssued \cup
  {Header(sc, t) : sc \in {"Basic", "bearer"}, t \in AccessTokens} \cup
  {Header("Bearer", t) : t \in Forged}

Bodies == {NoBody, Body(TRUE, "Al", "al@x.io", "al", "new-pass")}

\* routes/user.routes.ts: the routes registered inside the private scope,
\* whose preHandler hook is authGuard
privateScope == {ME, PERSONAL, ACCOUNT}

\* a request to a profile route: the preHandler hooks of its scope, then the handler
PrivilegedRequest(endpoint, h, b) ==
  /\ api = "up"
  /\ LET g == IF endpoint \in privateScope
              THEN authGuard(h, CONFIG, now)
              ELSE [pass |-> TRUE, userId |-> ""]
     IN IF ~g.pass
        THEN /\ reply' = Reply(endpoint, Unauthorized.status, Unauthorized.body,
                               FALSE, "", h, now)
             /\ sent' = Sent(Unauthorized.status, [message |-> Unauthorized.body], NoFields)
             /\ UNCHANGED users
        ELSE IF g.userId = ""       \* the handlers' own `if (!req.userId)`
        THEN /\ reply' = Reply(endpoint, 401, RESPONSE_TEXTS.UNAUTHORIZED, TRUE, "", h, now)
             /\ sent' = Sent(401, [message |-> RESPONSE_TEXTS.UNAUTHORIZED], NoFields)
             /\ UNCHANGED users
        ELSE LET out == handle(endpoint, g.userId, b, users)
             IN /\ reply' = Reply(endpoint, out.status, out.body, TRUE, g.userId, h, now)
                /\ sent' = Sent(out.status, out.data, NoFields)
                /\ users' = out.table
  /\ UNCHANGED <<now, env, CONFIG, api, issued, call, uiVars>>

\* the instants around the expiry of the tokens issued so far
Deadlines ==
  UNION {{t.claims.exp - 1, t.claims.exp, t.claims.exp + 1} : t \in IssuedTokens}

\* time passes on the API side: to a deadline, or a second before any
Advance(t) ==
  /\ api = "up"
  /\ t > now
  /\ t \in Deadlines \/ (t = now + 1 /\ now < MaxIdle)
  /\ now' = t
  /\ UNCHANGED <<env, CONFIG, api, users, issued, reply, call, sent, uiVars>>

NoUrl == Url("", <<>>)
NoRes == [kind |-> "none", by |-> "", url |-> NoUrl, deleted |-> {}]
NoJar == (TOKENS.ACCESS :> Absent) @@ (TOKENS.REFRESH :> Absent)
NoSeen == [url |-> NoUrl, jar |-> NoJar, after |-> NoJar, at |-> 0]
NoNav == [phase |-> "idle", url |-> NoUrl, gateHops |-> 0, pageHops |-> 0]

(***************************************************************************)
(* services/user.service.ts: UserServiceImpl, the client's session store.  *)
(* A store is the three things login and clearToken write: localStorage,   *)
(* the cookie jar, and the instant each cookie expires.                    *)
(***************************************************************************)
NoAge == (TOKENS.ACCESS :> 0) @@ (TOKENS.REFRESH :> 0)
Store(l, j, a) == [ls |-> l, jar |-> j, age |-> a]
Pair(a, r) == [accessToken |-> a, refreshToken |-> r]
NoPair == Pair(Absent, Absent)

\* getToken(): localStorage.getItem(TOKENS.ACCESS)
getToken(l) == l[TOKENS.ACCESS]

\* isAuthenticated(): !!getToken()
isAuthenticated(l) == Truthy(getToken(l))

DefaultAccessMaxAge == 3600
RefreshCookieMaxAge == 2592000

\* maxAgeFromJwt of login: max(0, exp - now) when the claims decode and carry
\* a truthy exp; -1 stands for null
maxAgeFromJwt(accessToken, clock) ==
  IF /\ accessToken.form = "jwt"
     /\ "exp" \in DOMAIN accessToken.claims
     /\ accessToken.claims.exp # 0
  THEN IF accessToken.claims.exp - clock > 0 THEN accessToken.claims.exp - clock ELSE 0
  ELSE -1

\* a fixed lifetime for the access cookie, whatever the token says
accessMaxAgeFixed(accessToken, clock) == DefaultAccessMaxAge

\* maxAgeFromJwt ?? 60 * 60
accessMaxAge(accessToken, clock) ==
  IF maxAgeFromJwt(accessToken, clock) = -1
  THEN DefaultAccessMaxAge
  ELSE maxAgeFromJwt(accessToken, clock)

\* the writes of login, in order, by the surface and key they go to
SessionWrites == <<"localStorage.accessToken", "localStorage.refreshToken",
                   "cookie.accessToken", "cookie.refreshToken">>

\* login that stores the access token only
setSessionAccessOnly(pair, clock) ==
  LET a == accessMaxAge(pair.accessToken, clock)
  IN [store |-> Store((TOKENS.ACCESS :> pair.accessToken) @@ (TOKENS.REFRESH :> Absent),
                      (TOKENS.ACCESS :> IF a > 0 THEN pair.accessToken ELSE Absent)
                        @@ (TOKENS.REFRESH :> Absent),
                      (TOKENS.ACCESS :> IF a > 0 THEN clock + a ELSE 0)
                        @@ (TOKENS.REFRESH :> 0)),
      wrote |-> <<"localStorage.accessToken", "cookie.accessToken">>]

\* login, after the 200: setToken, setRefreshToken and the two document.cookie
\* assignments.  A cookie assigned with Max-Age=0 is dropped at once.  The
\* cookie value is encodeURIComponent(token), which leaves the characters of
\* a JWT as they are.
setSession(pair, clock) ==
  LET a == accessMaxAge(pair.accessToken, clock)
  IN [store |-> Store((TOKENS.ACCESS :> pair.accessToken)
                        @@ (TOKENS.REFRESH :> pair.refreshToken),
                      (TOKENS.ACCESS :> IF a > 0 THEN pair.accessToken ELSE Absent)
                        @@ (TOKENS.REFRESH :> pair.refreshToken),
                      (TOKENS.ACCESS :> IF a > 0 THEN clock + a ELSE 0)
                        @@ (TOKENS.REFRESH :> clock + RefreshCookieMaxAge)),
      wrote |-> SessionWrites]

\* clearToken that leaves the refresh token where it is
clearTokenAccessOnly(st) ==
  Store([st.ls EXCEPT ![TOKENS.ACCESS] = Absent],
        [st.jar EXCEPT ![TOKENS.ACCESS] = Absent],
        [st.age EXCEPT ![TOKENS.ACCESS] = 0])

\* clearToken(): removeItem on both keys, both cookies assigned Max-Age=0
clearToken(st) == Store(NoJar, NoJar, NoAge)

\* the cookies still in the jar at the given instant
unexpired(j, a, clock) ==
  [k \in DOMAIN j |-> IF j[k] # Absent /\ a[k] <= clock THEN Absent ELSE j[k]]

\* the callback invocation the last operation made on an observer, if it
\* made one (fresh): who made it and the value it passed; late tells whether
\* the callback was ever invoked after the observer had unsubscribed
Ev(by, value, late, fresh) == [by |-> by, value |-> value, late |-> late, fresh |-> fresh]
NoEv == Ev("", Absent, FALSE, FALSE)

\* one observeToken call: status none | on | off (unsubscribed), the `last`
\* of its closure, whether onStorage is registered, and how many poll
\* intervals have ended since the stored token last changed with `last`
\* differing from it
Observer(status, last, listening, behind, ev) ==
  [status |-> status, last |-> last, listening |-> listening, behind |-> behind,
   ev |-> ev]
NoObserver == Observer("none", Absent, FALSE, 0, NoEv)

\* no invocation by this operation
Settle(o) == [o EXCEPT !.ev = Ev("", Absent, o.ev.late, FALSE)]

\* last = value; callback(last)
Invoke(o, by, value, stored) ==
  [o EXCEPT !.last = value,
            !.behind = IF value = stored THEN 0 ELSE @,
            !.ev = Ev(by, value, o.ev.late \/ o.status = "off", TRUE)]

\* observeToken up to its return: let last = getToken(); callback(last);
\* addEventListener
observeToken(o, stored) ==
  Invoke([o EXCEPT !.status = "on", !.listening = TRUE], "observe", stored, stored)

\* the storage listener of an observation
onStorage(o, e, stored) ==
  IF e.key = TOKENS.ACCESS THEN Invoke(o, "storage", e.newValue, stored) ELSE Settle(o)

\* an interval callback that reports on every tick
pollTickAlways(o, curr) == Invoke(o, "poll", curr, curr)

\* the interval callback of an observation: curr !== last
pollTick(o, curr) == IF curr # o.last THEN Invoke(o, "poll", curr, curr) ELSE Settle(o)

\* the timer part of the unsubscribe function: it clears whatever interval
\* the shared field tokenWatchTimer names at that moment
clearWatchTimer(field, live) ==
  IF field # 0
  THEN [field |-> 0, live |-> live \ {field}]
  ELSE [field |-> field, live |-> live]

\* a storage event: the key written and its new value
StorageEvent(key, newValue) == [key |-> key, newValue |-> newValue]

\* the events another window's write from store `old` to store `new` raises
eventsOf(old, new) ==
  (IF old[TOKENS.ACCESS] # new[TOKENS.ACCESS]
   THEN <<StorageEvent(TOKENS.ACCESS, new[TOKENS.ACCESS])>> ELSE <<>>) \o
  (IF old[TOKENS.REFRESH] # new[TOKENS.REFRESH]
   THEN <<StorageEvent(TOKENS.REFRESH, new[TOKENS.REFRESH])>> ELSE <<>>)

\* the submit of the login form: idle | inflight | returned, the pair login()
\* stored, the writes it made, the instant the request was sent
Submit(pc, pair, wrote, at, token) ==
  [pc |-> pc, pair |-> pair, wrote |-> wrote, at |-> at, token |-> token]
NoSubmit == Submit("idle", NoPair, <<>>, 0, Absent)

\* a request of HttpClient.request: idle | inflight, and the token headers()
\* read from getToken() when it was sent
Request(pc, token) == [pc |-> pc, token |-> token]
NoRequest == Request("idle", Absent)

\* ensureOk that throws AuthError on 401 without calling onUnauthorized
ensureOkNoCallback(status) ==
  IF status = 401 THEN [unauthorized |-> FALSE, thrown |-> "AuthError"]
  ELSE IF status \notin 200..299 THEN [unauthorized |-> FALSE, thrown |-> "Error"]
  ELSE [unauthorized |-> FALSE, thrown |-> ""]

\* ensureOk: on 401 onUnauthorized() then AuthError; on another status that
\* is not OK an Error; nothing otherwise
ensureOk(status) ==
  IF status = 401 THEN [unauthorized |-> TRUE, thrown |-> "AuthError"]
  ELSE IF status \notin 200..299 THEN [unauthorized |-> FALSE, thrown |-> "Error"]
  ELSE [unauthorized |-> FALSE, thrown |-> ""]

\* the store after ensureOk: onUnauthorized is () => this.clearToken()
afterEnsureOk(status, st) == IF ensureOk(status).unauthorized THEN clearToken(st) ELSE st

\* what a request answered with an error leaves for the claims: the status, what was
\* thrown, the token the request carried, the store before the answer and
\* the store as the caller finds it
Failed(status, token, st, repeat) ==
  [status |-> status, thrown |-> ensureOk(status).thrown, token |-> token,
   before |-> st, after |-> afterEnsureOk(status, st), repeat |-> repeat]

Did(op, arg) == [op |-> op, arg |-> arg]
NoDid == Did("", NoFields)

sessIdle ==
  /\ ls = NoJar /\ jarAge = NoAge
  /\ tokenWatchTimer = 0
  /\ obs = [i \in 1..MaxObservers |-> NoObserver]
  /\ intervals = {} /\ due = {} /\ events = <<>>
  /\ submit = NoSubmit /\ request = NoRequest /\ did = NoDid

uiIdle ==
  /\ jar = NoJar /\ nav = NoNav /\ res = NoRes /\ seen = NoSeen /\ shown = ""
  /\ sessIdle

(***************************************************************************)
(* SpecApi: startup under every environment, logins, the issued tokens     *)
(* presented to GET /api/profile/me as time passes.                        *)
(***************************************************************************)
InitApi ==
  /\ now = 0
  /\ env \in Envs
  /\ CONFIG = NoConfig
  /\ api = "starting"
  /\ users = Users0
  /\ issued = <<>>
  /\ reply = NoReply /\ call = NoCall /\ sent = NoSent
  /\ uiIdle

NextApi ==
  \/ Startup
  \/ \E id \in Identifiers, pw \in Passwords, row \in users \cup {NoRow}, tick \in {0, 1} :
       Login(id, pw, row, tick)
  \/ \E h \in BearerIssued : PrivilegedRequest(ME, h, NoBody)
  \/ \E t \in Deadlines \cup {now + 1} : Advance(t)

SpecApi == InitApi /\ [][NextApi]_vars

(***************************************************************************)
(* SpecGuard: the three privileged routes under every kind of credential.  *)
(***************************************************************************)
GuardEnvs == {RefEnv @@ ("JWT_ACCESS_TTL" :> "2s") @@ ("JWT_REFRESH_TTL" :> "3s"),
              ("JWT_ACCESS_SECRET" :> S1) @@ ("JWT_REFRESH_SECRET" :> S1)}

InitGuard ==
  /\ now = 0
  /\ env \in GuardEnvs
  /\ CONFIG = NoConfig
  /\ api = "starting"
  /\ users = Users0
  /\ issued = <<>>
  /\ reply = NoReply /\ call = NoCall /\ sent = NoSent
  /\ uiIdle

NextGuard ==
  \/ Startup
  \/ \E id \in {"alice"}, pw \in {"alice-pw", "new-pass"}, row \in users \cup {NoRow} :
       Login(id, pw, row, 0)
  \/ \E e \in PrivilegedEndpoints, h \in Headers, b \in Bodies : PrivilegedRequest(e, h, b)
  \/ \E t \in Deadlines \cup {now + 1} : Advance(t)

SpecGuard == InitGuard /\ [][NextGuard]_vars

(***************************************************************************)
(* controllers/user.controller.ts: register.  The body's email is checked  *)
(* in its parsed form (lowerTrim) and inserted as it was sent.             *)
(***************************************************************************)
\* the ids gen_random_uuid() hands out, in order
Ids == <<"u1", "u2", "u3", "u4", "u5">>

\* lowerTrim of zod-helpers, on values without surrounding white space
lowerTrim(v) == toLowerCase(v)

\* registerUserService: the table after the insert, and the row returned
registerUserService(table, b, id) ==
  LET row == [id |-> id, name |-> b.name, username |-> b.username, email |-> b.email,
              password |-> bcryptHash(b.password)]
  IN [table |-> table \cup {row},
      inserted |-> [id |-> row.id, name |-> row.name, email |-> row.email,
                    username |-> row.username]]

\* [status, data, table] of UserController.register
register(b, table) ==
  IF ~b.valid
  THEN [status |-> 400, table |-> table,
        data |-> [success |-> "false", message |-> "Validation failed"]]
  ELSE IF \E u \in table : u.email = lowerTrim(b.email)
  THEN [status |-> 409, table |-> table,
        data |-> [success |-> "false", message |-> RESPONSE_TEXTS.EMAIL_EXISTS]]
  ELSE IF \E u \in table : u.username = b.username
  THEN [status |-> 409, table |-> table,
        data |-> [success |-> "false", message |-> RESPONSE_TEXTS.USERNAME_EXISTS]]
  ELSE LET out == registerUserService(table, b, Ids[Cardinality(table) + 1])
       IN IF uniqueOk(out.table)
          THEN [status |-> 201, table |-> out.table,
                data |-> [success |-> "true"] @@ out.inserted]
          ELSE [status |-> 500, table |-> table,
                data |-> InternalError("duplicate key value violates unique constraint").body]

\* POST /api/auth/register
Register(b) ==
  /\ api = "up"
  /\ Cardinality(users) < MaxUsers
  /\ LET out == register(b, users)
     IN /\ reply' = Reply(REGISTER, out.status,
                         IF out.status = 201 THEN "" ELSE out.data.message,
                         TRUE, "", NoHeader, now)
        /\ sent' = Sent(out.status, out.data, NoFields)
        /\ users' = out.table
  /\ UNCHANGED <<now, env, CONFIG, api, issued, call, uiVars>>

(***************************************************************************)
(* SpecAccounts: accounts are registered and updated, users log in with    *)
(* usernames and e-mail addresses, and the tokens issued are presented to  *)
(* the profile routes.                                                     *)
(***************************************************************************)
RegisterBodies == {NoBody,
                   Body(TRUE, "Carol", "Carol@X.io", "carol", "carol-pw"),
                   Body(TRUE, "Al", "ALICE@x.io", "al", "alice-pw"),
                   Body(TRUE, "Bo", "bo@x.io", "bob", "bobs-pw")}

AccountIdentifiers == {"alice", "ALICE", "Alice@X.io", "al@x.io", "carol", "Carol@X.io",
                       "nobody"}
AccountPasswords == {"alice-pw", "carol-pw", "new-pass"}

InitAccounts ==
  /\ now = 0
  /\ env = RefEnv /\ CONFIG = envParse(RefEnv) /\ api = "up"
  /\ users = Users0
  /\ issued = <<>>
  /\ reply = NoReply /\ call = NoCall /\ sent = NoSent
  /\ uiIdle

NextAccounts ==
  \/ \E b \in RegisterBodies : Register(b)
  \/ \E id \in AccountIdentifiers, pw \in AccountPasswords, row \in users \cup {NoRow} :
       Login(id, pw, row, 0)
  \/ \E e \in PrivilegedEndpoints, h \in BearerIssued, b \in Bodies : PrivilegedRequest(e, h, b)

SpecAccounts == InitAccounts /\ [][NextAccounts]_vars


(***************************************************************************)
(* The browser and the UI server: a navigation goes through the gate,      *)
(* follows the redirects it is answered with, and ends with a page.        *)
(***************************************************************************)
\* lib/auth.ts getMe, against the API: the Me it can return, if any
getMeCanSucceed(cookies, clock) ==
  LET token == cookies[TOKENS.ACCESS]
      g     == authGuard(Header("Bearer", token), CONFIG, clock)
  IN /\ Truthy(token)
     /\ api = "up"
     /\ g.pass
     /\ handle(ME, g.userId, NoBody, users).status = 200

\* the routes that have a page.tsx
Pages == {PAGE_LINKS.DASHBOARD, PAGE_LINKS.PROFILE, PAGE_LINKS.LOGIN, PAGE_LINKS.REGISTER, "/"}
NotFound == "404"

Paths == {"/dashboard", "/dashboard/settings", "/dashboardx", "/profile",
          "/login", "/register", "/"}
Queries == {<<>>, <<Param("tab", "1")>>, <<Param("next", "/profile")>>,
            <<Param("next", "/a"), Param("tab", "1"), Param("next", "/b")>>}

\* what a browser may hold in the access-token cookie
AccessCookies ==
  {Absent, Plain("empty"), Plain("opaque"), Plain("badjson"),
   Jwt("HS256", S1, [sub |-> "u1", username |-> "alice", iat |-> 0, exp |-> 2]),
   Jwt("HS256", S1, [sub |-> "u9", username |-> "gone", iat |-> 0, exp |-> 3]),
   Jwt("HS256", "guess", [sub |-> "u1", exp |-> 3]),
   Jwt("none", "", [sub |-> "u1"])}
RefreshCookies ==
  {Absent, Jwt("HS256", S2, [sub |-> "u1", type |-> "refresh", iat |-> 0, exp |-> 3])}

\* the user opens a URL
Navigate(url) ==
  /\ nav.phase = "idle"
  /\ nav' = [phase |-> "request", url |-> url, gateHops |-> 0, pageHops |-> 0]
  /\ shown' = ""
  /\ UNCHANGED <<now, jar, res, seen, apiVars, sessVars>>

\* login() has returned and the rest of submit, a microtask, has not run
\* yet: no event handler, timer, listener or response of this window is
\* handled before it
submitPending == submit.pc = "returned"

\* the request matches config.matcher: middleware runs and the browser
\* applies the cookie deletions of its response
Gate ==
  /\ ~submitPending
  /\ nav.phase = "request"
  /\ matcher(nav.url.pathname)
  /\ LET r == middleware(nav.url, jar, now)
     IN /\ res' = r
        /\ jar' = ApplyDeletes(jar, r.deleted)
        /\ nav' = [nav EXCEPT !.phase = IF r.kind = "redirect" THEN "redirect" ELSE "page"]
  /\ seen' = [url |-> nav.url, jar |-> jar, after |-> jar', at |-> now]
  /\ UNCHANGED <<now, shown, apiVars, sessVars>>

\* the request does not match config.matcher: no middleware
Bypass ==
  /\ nav.phase = "request"
  /\ ~matcher(nav.url.pathname)
  /\ nav' = [nav EXCEPT !.phase = "page"]
  /\ res' = [kind |-> "next", by |-> "router", url |-> nav.url, deleted |-> {}]
  /\ seen' = [url |-> nav.url, jar |-> jar, after |-> jar, at |-> now]
  /\ UNCHANGED <<now, jar, shown, apiVars, sessVars>>

\* the browser follows a redirect
Follow ==
  /\ nav.phase = "redirect"
  /\ nav' = [phase |-> "request", url |-> res.url,
             gateHops |-> nav.gateHops + (IF res.by = "gate" THEN 1 ELSE 0),
             pageHops |-> nav.pageHops + (IF res.by = "page" THEN 1 ELSE 0)]
  /\ UNCHANGED <<now, jar, res, seen, shown, apiVars, sessVars>>

\* app/dashboard/page.tsx: getMe() returned a user, the dashboard renders
RenderDashboard ==
  /\ nav.phase = "page"
  /\ nav.url.pathname = PAGE_LINKS.DASHBOARD
  /\ getMeCanSucceed(jar, now)
  /\ shown' = PAGE_LINKS.DASHBOARD
  /\ nav' = [nav EXCEPT !.phase = "idle"]
  /\ UNCHANGED <<now, jar, res, seen, apiVars, sessVars>>

\* app/dashboard/page.tsx: getMe() returned null (no token, a non-OK answer,
\* or the fetch failed), the page redirects to /login?next=/dashboard
RedirectDashboard(fetchFails) ==
  /\ nav.phase = "page"
  /\ nav.url.pathname = PAGE_LINKS.DASHBOARD
  /\ fetchFails \/ ~getMeCanSucceed(jar, now)
  /\ res' = [kind |-> "redirect", by |-> "page",
             url |-> Url(PAGE_LINKS.LOGIN, <<Param("next", PAGE_LINKS.DASHBOARD)>>),
             deleted |-> {}]
  /\ nav' = [nav EXCEPT !.phase = "redirect"]
  /\ UNCHANGED <<now, jar, seen, shown, apiVars, sessVars>>

\* every other route: its page, or the not-found page
RenderOther ==
  /\ nav.phase = "page"
  /\ nav.url.pathname # PAGE_LINKS.DASHBOARD
  /\ shown' = IF nav.url.pathname \in Pages THEN nav.url.pathname ELSE NotFound
  /\ nav' = [nav EXCEPT !.phase = "idle"]
  /\ UNCHANGED <<now, jar, res, seen, apiVars, sessVars>>

\* a second passes
Tick ==
  /\ now < MaxNow
  /\ now' = now + 1
  /\ UNCHANGED <<uiVars, apiVars>>

Init ==
  /\ now = 0
  /\ jar \in {(TOKENS.ACCESS :> a) @@ (TOKENS.REFRESH :> r) :
                a \in AccessCookies, r \in RefreshCookies}
  /\ nav = NoNav /\ res = NoRes /\ seen = NoSeen /\ shown = ""
  /\ sessIdle
  /\ env = RefEnv /\ CONFIG = envParse(RefEnv) /\ api = "up"
  /\ users = Users0 /\ issued = <<>> /\ reply = NoReply
  /\ call = NoCall /\ sent = NoSent

Next ==
  \/ \E p \in Paths, q \in Queries : Navigate(Url(p, q))
  \/ Gate
  \/ Bypass
  \/ Follow
  \/ RenderDashboard
  \/ \E fetchFails \in BOOLEAN : RedirectDashboard(fetchFails)
  \/ RenderOther
  \/ Tick

Spec == Init /\ [][Next]_vars

(***************************************************************************)
(* The client session: the login form, the header's logout, the observers  *)
(* of the access token, other windows of the same origin.                  *)
(***************************************************************************)
navVars == <<nav, res, seen, shown>>
watchVars == <<tokenWatchTimer, intervals, due, events>>

Settled == [i \in DOMAIN obs |-> Settle(obs[i])]

\* the observers after a write that left `stored` in localStorage: no
\* callback runs, and a change of the access token starts a new wait
Written(stored) ==
  [i \in DOMAIN obs |->
     [Settle(obs[i]) EXCEPT !.behind = IF stored # getToken(ls) THEN 0 ELSE @]]
PushTo(path) == [phase |-> "request", url |-> Url(path, <<>>), gateHops |-> 0, pageHops |-> 0]

\* the TTLs of the access tokens the login answers carry
SessionTtls == {"2s"}

\* the pair a 200 of POST /api/auth/login carries for the user, signed when
\* the request arrived
loginPair(username, ttl, clock) ==
  LET row == CHOOSE u \in users : u.username = username
  IN Pair(signJwt(accessPayload(row), CONFIG.JWT_ACCESS_SECRET, ttl, clock),
          signJwt(refreshPayload(row), CONFIG.JWT_REFRESH_SECRET, "3s", clock))

\* what the answer of the API may carry as access token: the token
\* authenticate signed, a token whose claims carry no exp, a string that is
\* no JWT
AnswerShapes == {"signed", "noexp", "opaque"}
answerPair(shape, username, ttl, clock) ==
  LET pair == loginPair(username, ttl, clock)
      a    == pair.accessToken
  IN IF shape = "signed" THEN pair
     ELSE IF shape = "noexp"
     THEN Pair(Jwt(a.alg, a.key, [c \in DOMAIN a.claims \ {"exp"} |-> a.claims[c]]),
               pair.refreshToken)
     ELSE Pair(Plain("opaque"), pair.refreshToken)

\* router.push right after the login call, without awaiting it
canPushNoAwait(sub) == sub.pc \in {"inflight", "returned"}

\* submit: router.push comes after `await UserService.login(...)`
canPush(sub) == sub.pc = "returned"

\* the form of the rendered login page is submitted: UserService.login sends
\* the request
SubmitLogin ==
  /\ submit.pc = "idle"
  /\ nav.phase = "idle"
  /\ submit' = Submit("inflight", NoPair, <<>>, now, getToken(ls))
  /\ did' = Did("submit", NoFields)
  /\ obs' = Settled
  /\ UNCHANGED <<request, now, jar, ls, jarAge, navVars, watchVars, apiVars>>

\* the answer arrives: 200 stores the session and login returns; 401 runs
\* onUnauthorized (clearToken) and throws; any other status throws
LoginResponse(status, ttl, shape) ==
  /\ submit.pc = "inflight"
  /\ IF ensureOk(status).thrown = ""
     THEN LET pair == answerPair(shape, "alice", ttl, submit.at)
              out  == setSession(pair, now)
          IN /\ ls' = out.store.ls /\ jar' = out.store.jar /\ jarAge' = out.store.age
             /\ submit' = Submit("returned", pair, out.wrote, submit.at, submit.token)
             /\ did' = Did("login", [token |-> pair.accessToken])
     ELSE LET st == afterEnsureOk(status, Store(ls, jar, jarAge))
          IN /\ ls' = st.ls /\ jar' = st.jar /\ jarAge' = st.age
             /\ submit' = NoSubmit
             /\ did' = Did(IF status = 401 THEN "clear" ELSE "error",
                           Failed(status, submit.token, Store(ls, jar, jarAge),
                                  did.op = "clear"))
  /\ obs' = Written(getToken(ls'))
  /\ UNCHANGED <<request, now, navVars, watchVars, apiVars>>

\* submit goes on after login returned: router.push(redirectTo)
SubmitPush ==
  /\ canPush(submit)
  /\ nav' = PushTo(PAGE_LINKS.DASHBOARD)
  /\ res' = NoRes /\ seen' = NoSeen /\ shown' = ""
  /\ did' = Did("push", [token |-> submit.pair.accessToken,
                         refresh |-> submit.pair.refreshToken,
                         wrote |-> submit.wrote])
  /\ submit' = NoSubmit
  /\ obs' = Settled
  /\ UNCHANGED <<request, now, jar, ls, jarAge, watchVars, apiVars>>

\* the header's logout: UserService.logout(), then router.push(LOGIN)
Logout ==
  /\ ~submitPending
  /\ LET st == clearToken(Store(ls, jar, jarAge))
     IN ls' = st.ls /\ jar' = st.jar /\ jarAge' = st.age
  /\ did' = Did("clear", [status |-> 0, thrown |-> "", token |-> Absent,
                          before |-> Store(ls, jar, jarAge),
                          after |-> clearToken(Store(ls, jar, jarAge)),
                          repeat |-> did.op = "clear"])
  /\ nav' = PushTo(PAGE_LINKS.LOGIN)
  /\ res' = NoRes /\ seen' = NoSeen /\ shown' = ""
  /\ obs' = Written(getToken(ls'))
  /\ UNCHANGED <<request, now, submit, watchVars, apiVars>>

\* a second passes in the browser: the cookies whose Max-Age ran out go
SessionTick ==
  /\ now < MaxNow
  /\ now' = now + 1
  /\ jar' = unexpired(jar, jarAge, now')
  /\ did' = Did("tick", NoFields)
  /\ obs' = Settled
  /\ UNCHANGED <<request, ls, jarAge, submit, navVars, watchVars, apiVars>>

\* a component calls UserService.observeToken(callback)
ObserveToken(i) ==
  /\ ~submitPending
  /\ obs[i].status = "none"
  /\ \A j \in 1..(i - 1) : obs[j].status # "none"
  /\ obs' = [Settled EXCEPT ![i] = observeToken(obs[i], getToken(ls))]
  /\ intervals' = intervals \cup {i}      \* window.setInterval returns a new id
  /\ tokenWatchTimer' = i
  /\ did' = Did("observe", [i |-> i, stored |-> getToken(ls)])
  /\ UNCHANGED <<request, now, jar, ls, jarAge, due, events, submit, navVars, apiVars>>

\* the function observeToken returned is called
Unsubscribe(i) ==
  /\ ~submitPending
  /\ obs[i].status = "on"
  /\ obs' = [Settled EXCEPT ![i] = [Settle(obs[i]) EXCEPT !.status = "off",
                                                         !.listening = FALSE]]
  /\ LET t == clearWatchTimer(tokenWatchTimer, intervals)
     IN /\ tokenWatchTimer' = t.field
        /\ intervals' = t.live
        /\ due' = due \cap t.live
  /\ did' = Did("unsubscribe", [i |-> i])
  /\ UNCHANGED <<request, now, jar, ls, jarAge, events, submit, navVars, apiVars>>

\* the interval of observation i fires
PollFire(i) ==
  /\ ~submitPending
  /\ i \in due
  /\ obs' = [Settled EXCEPT ![i] = pollTick(obs[i], getToken(ls))]
  /\ due' = due \ {i}
  /\ did' = Did("poll", [i |-> i, stored |-> getToken(ls), last |-> obs[i].last])
  /\ UNCHANGED <<request, now, jar, ls, jarAge, tokenWatchTimer, intervals, events, submit,
                 navVars, apiVars>>

\* one poll interval is over: every live interval has fired in it, and the
\* storage events raised in it were dispatched
PollPeriod ==
  /\ due = {}
  /\ events = <<>>
  /\ due' = intervals
  /\ obs' = [i \in DOMAIN obs |->
              [Settle(obs[i]) EXCEPT !.behind =
                 IF obs[i].status # "on" \/ obs[i].last = getToken(ls) THEN 0
                 ELSE IF @ < 2 THEN @ + 1 ELSE @]]
  /\ did' = Did("period", NoFields)
  /\ UNCHANGED <<request, now, jar, ls, jarAge, tokenWatchTimer, intervals, events, submit,
                 navVars, apiVars>>

\* the window dispatches the storage event at the head of its queue
DispatchStorage ==
  /\ ~submitPending
  /\ events # <<>>
  /\ obs' = [i \in DOMAIN obs |->
              IF obs[i].listening THEN onStorage(obs[i], Head(events), getToken(ls))
              ELSE Settle(obs[i])]
  /\ events' = Tail(events)
  /\ did' = Did("storage", [event |-> Head(events),
                            listeners |-> {i \in DOMAIN obs : obs[i].listening}])
  /\ UNCHANGED <<request, now, jar, ls, jarAge, tokenWatchTimer, intervals, due, submit,
                 navVars, apiVars>>

\* another window of the origin logs out or logs in: the storage is shared,
\* and this window is sent the storage events of the keys that changed
ForeignWrite(login) ==
  /\ Len(events) + 2 <= MaxEvents
  /\ LET st == IF login THEN setSession(loginPair("bob", "2s", now), now).store
                ELSE clearToken(Store(ls, jar, jarAge))
     IN /\ st.ls # ls
        /\ ls' = st.ls /\ jar' = st.jar /\ jarAge' = st.age
        /\ events' = events \o eventsOf(ls, st.ls)
  /\ did' = Did("foreign", NoFields)
  /\ obs' = Written(getToken(ls'))
  /\ UNCHANGED <<request, now, tokenWatchTimer, intervals, due, submit, navVars, apiVars>>

\* a component calls getMe, updatePersonal or updateAccount: request() builds
\* the headers from getToken() and sends
SendRequest ==
  /\ ~submitPending
  /\ request.pc = "idle"
  /\ request' = Request("inflight", getToken(ls))
  /\ did' = Did("send", NoFields)
  /\ obs' = Settled
  /\ UNCHANGED <<now, jar, ls, jarAge, submit, navVars, watchVars, apiVars>>

\* its answer arrives and ensureOk runs
RequestResponse(status) ==
  /\ ~submitPending
  /\ request.pc = "inflight"
  /\ LET st == afterEnsureOk(status, Store(ls, jar, jarAge))
     IN ls' = st.ls /\ jar' = st.jar /\ jarAge' = st.age
  /\ did' = IF ensureOk(status).thrown = "" THEN Did("ok", NoFields)
            ELSE Did(IF status = 401 THEN "clear" ELSE "error",
                     Failed(status, request.token, Store(ls, jar, jarAge),
                            did.op = "clear"))
  /\ request' = NoRequest
  /\ obs' = Written(getToken(ls'))
  /\ UNCHANGED <<now, submit, navVars, watchVars, apiVars>>

InitSession ==
  /\ now = 0
  /\ uiIdle
  /\ env = RefEnv /\ CONFIG = envParse(RefEnv) /\ api = "up"
  /\ users = Users0 /\ issued = <<>> /\ reply = NoReply
  /\ call = NoCall /\ sent = NoSent

(***************************************************************************)
(* SpecSession: logins and logouts as seconds pass, each followed by the   *)
(* navigation it pushes, through the gate.                                 *)
(***************************************************************************)
NextSession ==
  \/ SubmitLogin
  \/ \E ttl \in SessionTtls, shape \in AnswerShapes : LoginResponse(200, ttl, shape)
  \/ \E status \in {401, 500} : LoginResponse(status, "2s", "signed")
  \/ SubmitPush
  \/ Logout
  \/ SessionTick
  \/ Gate
  \/ Follow
  \/ RenderDashboard
  \/ \E fetchFails \in BOOLEAN : RedirectDashboard(fetchFails)
  \/ RenderOther

SpecSession == InitSession /\ [][NextSession]_vars

(***************************************************************************)
(* SpecRequests: requests of HttpClient in flight while the session is     *)
(* written and cleared.                                                    *)
(***************************************************************************)
NextRequests ==
  \/ SubmitLogin
  \/ \E status \in {200, 401, 500} : LoginResponse(status, "2s", "signed")
  \/ SubmitPush
  \/ Logout
  \/ SendRequest
  \/ \E status \in {200, 401, 500} : RequestResponse(status)
  \/ SessionTick
  \/ Gate
  \/ Follow
  \/ RenderDashboard
  \/ \E fetchFails \in BOOLEAN : RedirectDashboard(fetchFails)
  \/ RenderOther

SpecRequests == InitSession /\ [][NextRequests]_vars

(***************************************************************************)
(* SpecObserve: observers subscribe and unsubscribe while this window and  *)
(* another one change the stored token.                                    *)
(***************************************************************************)
NextObserve ==
  \/ \E i \in 1..MaxObservers : ObserveToken(i)
  \/ \E i \in 1..MaxObservers : Unsubscribe(i)
  \/ \E i \in 1..MaxObservers : PollFire(i)
  \/ PollPeriod
  \/ DispatchStorage
  \/ \E login \in BOOLEAN : ForeignWrite(login)
  \/ SubmitLogin
  \/ \E status \in {200, 401} : LoginResponse(status, "2s", "signed")
  \/ SubmitPush
  \/ Logout

SpecObserve == InitSession /\ [][NextObserve]_vars


(***************************************************************************)
(* The route gate: C1 - C6                                                 *)
(***************************************************************************)
\* the claims' own reading of the gate table's inputs
ProtectedPath(p) == StartsWith(p, "/dashboard") \/ StartsWith(p, "/profile")
AuthPagePath(p) == p \in {"/login", "/register"}
PublicPath(p) == ~ProtectedPath(p) /\ ~AuthPagePath(p)
NextInQuery(q) == \E i \in 1..Len(q) : q[i].key = "next"

\* present but undecodable, or with a numeric exp that has passed
FlaggedExpired(t, clock) ==
  \/ t.form \in {"empty", "opaque", "badjson"}
  \/ t.form = "jwt" /\ "exp" \in DOMAIN t.claims /\ t.claims.exp <= clock
NotValid(t, clock) == t.form = "absent" \/ FlaggedExpired(t, clock)

GateRan == res.by = "gate"
BothGone(cookies) == cookies["accessToken"] = Absent /\ cookies["refreshToken"] = Absent
RedirectsToLoginWithNext ==
  /\ res.kind = "redirect"
  /\ res.url.pathname = "/login"
  /\ NextInQuery(res.url.params)
  /\ GetParam(res.url.params, "next") = seen.url.pathname \o Search(seen.url.params)

\* C1: a Protected path with an absent, undecodable or expired access cookie
\* is answered with a redirect to /login whose next is the original path and
\* query, and after the response neither token cookie is left.
C1_ProtectedRedirectClearsBoth ==
  (GateRan /\ ProtectedPath(seen.url.pathname)
           /\ NotValid(seen.jar["accessToken"], seen.at))
    => (RedirectsToLoginWithNext /\ BothGone(seen.after))

\* C2: an auth page with a next parameter renders (no redirect) and after the
\* response neither token cookie is left, whatever the access cookie was.
C2_AuthPageNextClearsBoth ==
  (GateRan /\ AuthPagePath(seen.url.pathname) /\ NextInQuery(seen.url.params))
    => (res.kind = "next" /\ BothGone(seen.after))

\* C3: an auth page without next and with an access cookie the advisory check
\* does not flag is redirected to /dashboard with an empty query string, and
\* both token cookies stay as they were.
C3_AuthedAuthPageToDashboard ==
  (GateRan /\ AuthPagePath(seen.url.pathname) /\ ~NextInQuery(seen.url.params)
           /\ ~NotValid(seen.jar["accessToken"], seen.at))
    => /\ res.kind = "redirect"
       /\ res.url.pathname = "/dashboard"
       /\ Search(res.url.params) = ""
       /\ seen.after = seen.jar

C3_Witness ==
  /\ GateRan /\ seen.url.pathname = "/register" /\ seen.url.params = <<Param("tab", "1")>>
  /\ seen.jar["accessToken"].form = "jwt" /\ seen.jar["refreshToken"] # Absent
  /\ res.kind = "redirect"

\* C4: in the three allow rows (Protected with a not-expired cookie, auth page
\* with neither next nor a valid cookie, Public path) the request passes
\* through without redirect and the cookies after equal the cookies before.
AllowRow ==
  \/ ProtectedPath(seen.url.pathname) /\ ~NotValid(seen.jar["accessToken"], seen.at)
                                      /\ GateRan
  \/ AuthPagePath(seen.url.pathname) /\ ~NextInQuery(seen.url.params)
                                     /\ NotValid(seen.jar["accessToken"], seen.at)
  \/ PublicPath(seen.url.pathname)

C4_AllowRowsTouchNothing ==
  (res.by \in {"gate", "router"} /\ AllowRow)
    => (res.kind = "next" /\ res.deleted = {} /\ seen.after = seen.jar)

C4_Witness ==
  /\ GateRan /\ seen.url.pathname = "/login" /\ seen.url.params = <<>>
  /\ FlaggedExpired(seen.jar["accessToken"], seen.at)
  /\ seen.jar["refreshToken"] # Absent
  /\ nav.phase = "page"

C6_NoRedirectLoop ==
  nav.gateHops <= 2 /\ nav.gateHops + nav.pageHops <= 2

C6_Witness ==
  /\ nav.gateHops = 2 /\ nav.phase = "page" /\ res.kind = "next"


(***************************************************************************)
(* The API guard and the tokens: C7 - C10                                  *)
(***************************************************************************)
\* full verification, as the claims spell it out: a Bearer header whose
\* token is HS256-signed under the access secret, not expired at `clock`,
\* and carries a subject
FullyVerified(h, clock) ==
  /\ h.scheme = "Bearer"
  /\ h.token.form = "jwt"
  /\ h.token.alg = "HS256"
  /\ h.token.key = CONFIG.JWT_ACCESS_SECRET
  /\ "exp" \in DOMAIN h.token.claims => clock < h.token.claims.exp
  /\ "sub" \in DOMAIN h.token.claims /\ h.token.claims.sub # ""

\* C7: a privileged handler runs only after the bearer token passed full
\* verification; every other request gets the same bare 401 and no handler.
C7_GuardBeforeHandler ==
  reply.endpoint \in {"GET /api/profile/me", "PUT /api/profile/personal",
                      "PUT /api/profile/account"}
    => /\ reply.handlerRan => FullyVerified(reply.header, reply.at)
       /\ ~FullyVerified(reply.header, reply.at)
            => /\ ~reply.handlerRan
               /\ reply.status = 401
               /\ reply.body = "Unauthorized"
               /\ reply.userId = ""

\* an issued access token, presented after it expired, is turned away; the
\* advisory check alone would have let an unsigned token without exp through
C7_Witness ==
  /\ reply.endpoint = "PUT /api/profile/personal"
  /\ reply.header \in {Header("Bearer", t) : t \in AccessTokens}
  /\ reply.at >= reply.header.token.claims.exp
  /\ reply.status = 401 /\ ~reply.handlerRan

\* C8 as stated: the access token of every issued pair verifies under the
\* access secret at the instant of issuance and at every time before its
\* exp, and fails at every time after it.
C8_VerifiesUntilExpiry ==
  \A i \in 1..Len(issued) :
    LET t  == issued[i].accessToken
        ok == verifyJwt(t, CONFIG.JWT_ACCESS_SECRET, now).ok
    IN /\ now = t.claims.iat => ok
       /\ now < t.claims.exp => ok
       /\ now > t.claims.exp => ~ok

TtlSeconds(ttl) == ms(ttl).v \div 1000

\* C10 as stated: exp = iat + ttl(kind) in whole seconds for every issued
\* token, and in every issued pair the access token expires strictly before
\* the refresh token, under every configuration the startup check accepts.
C10_AccessExpiresFirst ==
  \A i \in 1..Len(issued) :
    LET a == issued[i].accessToken.claims
        r == issued[i].refreshToken.claims
    IN /\ a.exp = a.iat + TtlSeconds(CONFIG.JWT_ACCESS_TTL)
       /\ r.exp = r.iat + TtlSeconds(CONFIG.JWT_REFRESH_TTL)
       /\ TtlSeconds(CONFIG.JWT_ACCESS_TTL) < TtlSeconds(CONFIG.JWT_REFRESH_TTL)
       /\ a.exp < r.exp


(***************************************************************************)
(* Credential verification and the login route: C11 - C14                  *)
(***************************************************************************)
\* the last reply answers a login for which authenticate was called
AuthenticateRan == reply.endpoint = LOGIN /\ call.steps # <<>>
Compares(steps) == {i \in 1..Len(steps) : steps[i].op = "bcrypt.compare"}
Ops(steps) == [i \in 1..Len(steps) |-> steps[i].op]
WrongPassword == call.row # NoRow /\ ~bcryptCompare(call.password, call.row.password)
NotFound401 == call.row = NoRow

\* C11: every call of authenticate makes exactly one hash comparison, with
\* the stored hash of the row found or with DUMMY_HASH when none was found,
\* and the not-found run and the wrong-password run take the same steps
\* (lookup, comparison, return) and end in the same negative result: no
\* user, no tokens, no exception.
C11_OneCompareSameNegative ==
  AuthenticateRan =>
    /\ Cardinality(Compares(call.steps)) = 1
    /\ \A i \in Compares(call.steps) :
         call.steps[i].arg = IF call.row = NoRow THEN DUMMY_HASH ELSE call.row.password
    /\ (NotFound401 \/ WrongPassword) =>
         /\ Ops(call.steps) = <<"findFirst", "bcrypt.compare", "return">>
         /\ reply.status = 401 /\ reply.userId = ""
         /\ sent.tokens = NoFields
         /\ sent.body = [success |-> "false", error |-> "Invalid credentials"]

C11_Witness ==
  /\ AuthenticateRan
  /\ NotFound401
  /\ \E i \in Compares(call.steps) : call.steps[i].arg = DUMMY_HASH

\* C13: a login that fails because the body fails the schema, because the
\* identifier is unknown or because the password is wrong is answered with
\* 401 and the body {success:false, error:'Invalid credentials'}, the same
\* for the three causes.
SchemaFailure == ~loginBodyValid(call.identifier, call.password)
Identifies(identifier, u) ==
  \/ identifier = u.username
  \/ Includes(identifier, "@") /\ toLowerCase(identifier) = u.email

Hashes == {u.password : u \in users} \cup {DUMMY_HASH}
StringClaims(t) == {t.claims[c] : c \in DOMAIN t.claims \ {"iat", "exp"}}
C14_HashNeverSent ==
  /\ \A f \in DOMAIN sent.body : sent.body[f] \notin Hashes
  /\ \A k \in DOMAIN sent.tokens : StringClaims(sent.tokens[k]) \cap Hashes = {}
  /\ \A t \in IssuedTokens : StringClaims(t) \cap Hashes = {}

C14_Witness ==
  /\ reply.endpoint = ME /\ reply.status = 200
  /\ sent.body.id = reply.userId
  /\ \E u \in users : u.id = reply.userId /\ u.password = bcryptHash("new-pass")


(***************************************************************************)
(* The client session store: C15 - C20                                     *)
(***************************************************************************)
\* the expiry a stored token carries has passed on the browser's clock
ExpiryPassed(t, clock) ==
  t.form = "jwt" /\ "exp" \in DOMAIN t.claims /\ t.claims.exp <= clock

\* the gate has evaluated the request of the router.push that followed a
\* login, and nothing else has touched the session since the push
GateReadForPush == did.op = "push" /\ res.by = "gate" /\ nav.gateHops = 0

LoginStored ==
  did.op = "login" => getToken(ls) = did.arg.token /\ Truthy(did.arg.token)
WritesPrecedePush ==
  did.op = "push" =>
    /\ did.arg.wrote = <<"localStorage.accessToken", "localStorage.refreshToken",
                         "cookie.accessToken", "cookie.refreshToken">>
    /\ ls["accessToken"] = did.arg.token /\ Truthy(did.arg.token)
    /\ ls["refreshToken"] = did.arg.refresh

\* C15 as stated: after login() returns getToken() is the token received, the
\* four session writes precede router.push, and the gate evaluation of the
\* navigation pushed reads the new access cookie.
C15_GateReadsNewCookie ==
  /\ LoginStored
  /\ WritesPrecedePush
  /\ GateReadForPush => seen.jar["accessToken"] = did.arg.token

\* C15 amended: as above, but the gate reads the new access cookie when the
\* token's exp is still ahead of the browser's clock (or it carries none),
\* and no access cookie when it is not (the cookie was assigned Max-Age=0
\* or has run out).
C15_WritesBeforePush ==
  /\ LoginStored
  /\ WritesPrecedePush
  /\ GateReadForPush =>
       seen.jar["accessToken"] =
         IF ExpiryPassed(did.arg.token, seen.at) THEN Absent ELSE did.arg.token

C15_Witness ==
  /\ GateReadForPush
  /\ Truthy(did.arg.token)
  /\ seen.jar["accessToken"] = did.arg.token
  /\ ls["accessToken"] = did.arg.token

\* C16: clearToken leaves no token in localStorage and no token cookie,
\* whatever was stored before, and a second call in a row leaves the state
\* of the first.
C16_ClearIdempotent ==
  did.op = "clear" =>
    /\ getToken(ls) = Absent /\ ls["refreshToken"] = Absent
    /\ jar["accessToken"] = Absent /\ jar["refreshToken"] = Absent
    /\ did.arg.repeat => Store(ls, jar, jarAge) = did.arg.before

C16_Witness ==
  /\ did.op = "clear"
  /\ did.arg.repeat
  /\ did.arg.before.ls = NoJar

\* C17 as stated: in every reachable state, in localStorage and in the
\* cookie jar alike, the access token is present exactly when the refresh
\* token is.
PairedIn(surface) == (surface["accessToken"] = Absent) <=> (surface["refreshToken"] = Absent)
C17_NeverPartial == PairedIn(ls) /\ PairedIn(jar)

\* C17 amended: localStorage always holds both tokens or neither; login
\* assigns both cookies, clearToken expires both and a response of the gate
\* that clears leaves neither (an access cookie of the empty value apart),
\* but the access cookie lives max(0, exp - now) seconds and the refresh
\* cookie 30 days.
C17_PairedWrites ==
  /\ PairedIn(ls)
  /\ did.op = "clear" => jar = NoJar
  /\ did.op = "login" =>
       /\ jar["refreshToken"] = ls["refreshToken"]
       /\ jar["refreshToken"] # Absent
       /\ jar["accessToken"] \in {Absent, ls["accessToken"]}
  /\ (res.by = "gate" /\ res.deleted # {}) =>
       /\ seen.after["refreshToken"] = Absent
       /\ seen.jar["accessToken"].form # "empty" => seen.after["accessToken"] = Absent

C17_Witness ==
  /\ did.op = "login"
  /\ jar["accessToken"] = Absent
  /\ jar["refreshToken"] # Absent
  /\ ls["accessToken"] # Absent

\* C18: once the unsubscribe function of an observation was called, its
\* callback is not invoked again and its listener and interval are gone;
\* an observation that has not unsubscribed keeps its listener and its
\* interval, whatever the other observations do.
C18_UnsubscribeStopsOnlyItsOwn ==
  \A i \in DOMAIN obs :
    /\ obs[i].status = "off" => ~obs[i].ev.late /\ ~obs[i].listening /\ i \notin intervals
    /\ obs[i].status = "on" => obs[i].listening /\ i \in intervals

\* C19: an observer that is still subscribed is never behind the stored
\* access token for a whole poll interval.
C19_BoundedStaleness ==
  \A i \in DOMAIN obs : obs[i].status = "on" => obs[i].behind <= 1

\* C20: observeToken invokes the callback with the current token before it
\* returns; a storage event invokes the callback of every listener with the
\* event's new value exactly when its key is the access-token key; the
\* interval invokes the callback exactly when the stored token differs from
\* the value delivered last, with the stored token.
FreshBy(i, by, value) ==
  obs[i].ev.fresh /\ obs[i].ev.by = by /\ obs[i].ev.value = value
C20_ObserveDelivery ==
  /\ did.op = "observe" => FreshBy(did.arg.i, "observe", did.arg.stored)
  /\ did.op = "storage" =>
       \A i \in DOMAIN obs :
         IF i \in did.arg.listeners /\ did.arg.event.key = "accessToken"
         THEN FreshBy(i, "storage", did.arg.event.newValue)
         ELSE ~obs[i].ev.fresh
  /\ did.op = "poll" =>
       /\ IF did.arg.stored # did.arg.last
          THEN FreshBy(did.arg.i, "poll", did.arg.stored)
          ELSE ~obs[did.arg.i].ev.fresh
       /\ \A j \in DOMAIN obs \ {did.arg.i} : ~obs[j].ev.fresh

C20_Witness ==
  /\ did.op = "poll"
  /\ did.arg.stored # did.arg.last
  /\ FreshBy(did.arg.i, "poll", did.arg.stored)
  /\ obs[did.arg.i].status = "on"


(***************************************************************************)
(* The client's view, the advisory check, the cookie lifetimes: C21 - C23  *)
(***************************************************************************)
\* C21: UserService.isAuthenticated() is true only while an access token is
\* stored whose expiry has not passed.
C21_AuthedOnlyUnexpired ==
  isAuthenticated(ls) => (getToken(ls) # Absent /\ ~ExpiryPassed(getToken(ls), now))

\* C22: the advisory check answers `expired` exactly for a token that is
\* absent, empty, not of three parts, undecodable, or has a numeric exp at
\* or before the clock; its answer does not depend on the signature; and on
\* a Protected path the gate redirects exactly on that answer.
C22_AdvisoryExpiry ==
  GateRan =>
    LET t == seen.jar[TOKENS.ACCESS]
    IN /\ isExpiredJwt(t, seen.at) <=> NotValid(t, seen.at)
       /\ isExpiredJwt(t, seen.at) = isExpiredJwt([t EXCEPT !.key = "", !.alg = "none"], seen.at)
       /\ ProtectedPath(seen.url.pathname) => (res.kind = "redirect" <=> NotValid(t, seen.at))

C22_Witness ==
  /\ GateRan
  /\ ProtectedPath(seen.url.pathname)
  /\ seen.jar[TOKENS.ACCESS].form = "jwt"
  /\ "exp" \in DOMAIN seen.jar[TOKENS.ACCESS].claims
  /\ seen.jar[TOKENS.ACCESS].claims.exp = seen.at
  /\ res.kind = "redirect"

\* C23: login assigns the access cookie Max-Age = max(0, exp - now) when the
\* access token's exp can be read and 3600 otherwise (a cookie assigned
\* Max-Age=0 is gone at once), and the refresh cookie Max-Age = 2592000
\* whatever the refresh token's exp.
C23_CookieMaxAge ==
  did.op = "login" =>
    LET t    == did.arg.token
        left == IF t.form = "jwt" /\ "exp" \in DOMAIN t.claims
                THEN (IF t.claims.exp > now THEN t.claims.exp - now ELSE 0)
                ELSE 3600
    IN /\ IF left > 0
          THEN jar[TOKENS.ACCESS] = t /\ jarAge[TOKENS.ACCESS] = now + left
          ELSE jar[TOKENS.ACCESS] = Absent
       /\ jar[TOKENS.REFRESH] = ls[TOKENS.REFRESH]
       /\ jar[TOKENS.REFRESH] # Absent
       /\ jarAge[TOKENS.REFRESH] = now + 2592000

C23_Witness ==
  /\ did.op = "login"
  /\ did.arg.token.form = "jwt"
  /\ "exp" \in DOMAIN did.arg.token.claims
  /\ now > 0
  /\ jar[TOKENS.ACCESS] = did.arg.token
  /\ jarAge[TOKENS.ACCESS] = did.arg.token.claims.exp
  /\ jar[TOKENS.REFRESH].claims.exp # jarAge[TOKENS.REFRESH]


(***************************************************************************)
(* 401 handling and the two surfaces: C24 - C26                            *)
(***************************************************************************)
Cleared == Store(ls, jar, jarAge) = Store(NoJar, NoJar, NoAge)
Answered == did.op \in {"clear", "error"} /\ did.arg.status # 0

\* C24: when the answer of a request, the login request included, is 401,
\* AuthError is thrown with both tokens gone from localStorage and both
\* cookies expired; when it is another status that is not OK, an Error is
\* thrown and the stored session is as it was.
C24_UnauthorizedClears ==
  Answered =>
    IF did.arg.status = 401
    THEN did.op = "clear" /\ did.arg.thrown = "AuthError" /\ Cleared
    ELSE did.op = "error" /\ did.arg.thrown = "Error"
         /\ did.arg.after = did.arg.before /\ ls = did.arg.before.ls

C24_Witness ==
  /\ did.op = "clear"
  /\ did.arg.status = 401
  /\ did.arg.before.ls # NoJar
  /\ did.arg.before.jar # NoJar
  /\ submit.pc = "idle" /\ request.pc = "inflight"
  /\ Cleared

\* C26: a 401 of a request sent with an older access token than the one
\* stored when it arrives leaves the stored session as it is.
C26_StaleUnauthorizedKeepsSession ==
  (/\ did.op = "clear"
   /\ did.arg.status = 401
   /\ did.arg.token # Absent
   /\ did.arg.before.ls[TOKENS.ACCESS] # Absent
   /\ did.arg.token # did.arg.before.ls[TOKENS.ACCESS])
    => (did.arg.after = did.arg.before /\ ls = did.arg.before.ls)

\* C25: cookie expiry by elapsed time aside, an access token is in
\* localStorage exactly when the access-token cookie is in the jar.
C25_SurfacesAgree ==
  jarAge[TOKENS.ACCESS] > now =>
    ((ls[TOKENS.ACCESS] # Absent) <=> (jar[TOKENS.ACCESS] # Absent))


(***************************************************************************)
(* Refresh tokens, the round trip, the two expiry checks, isolation:       *)
(* C27 - C30                                                               *)
(***************************************************************************)
\* C27: a request to a privileged route whose bearer credential is a refresh
\* token the API issued is answered 401 and reaches no handler.
C27_RefreshNeverBearer ==
  (/\ reply.endpoint \in privateScope
   /\ reply.header \in {Header("Bearer", t) : t \in RefreshTokens})
    => (reply.status = 401 /\ ~reply.handlerRan)

\* the rows a registration with body b created that hold what it inserted
createdBy(b) ==
  {u \in users \ Users0 :
     /\ u.name = b.name /\ u.username = b.username /\ u.email = b.email
     /\ u.password = bcryptHash(b.password)}

\* C28: a login with the username of an accepted registration, or with its
\* e-mail address in any letter case, and with its password is answered 200
\* with tokens whose subject is the id of the row the registration created,
\* as long as that row holds what the registration put in.
C28_RegisterLoginRoundTrip ==
  \A b \in RegisterBodies : \A u \in createdBy(b) :
    (/\ b.valid
     /\ reply.endpoint = LOGIN
     /\ call.password = b.password
     /\ \/ call.identifier = b.username
        \/ toLowerCase(call.identifier) = toLowerCase(b.email))
      => (/\ reply.status = 200
          /\ reply.userId = u.id
          /\ sent.tokens.accessToken.claims.sub = u.id
          /\ sent.tokens.refreshToken.claims.sub = u.id)

\* C29: at one clock reading the advisory check takes an access token the
\* API issued for expired exactly when authGuard refuses it, the instant
\* now = exp included; and a profile request made with such a token was
\* answered 401 exactly when the advisory check at that instant says expired.
C29_ExpiryChecksAgree ==
  /\ \A t \in AccessTokens :
       isExpiredJwt(t, now) <=> ~authGuard(Header("Bearer", t), CONFIG, now).pass
  /\ (reply.endpoint = ME /\ reply.header.token \in AccessTokens)
       => (isExpiredJwt(reply.header.token, reply.at) <=> reply.status = 401)

\* a profile request with an issued access token at the instant of its exp
C29_Witness ==
  /\ reply.endpoint = ME
  /\ reply.header.token \in AccessTokens
  /\ reply.at = reply.header.token.claims.exp
  /\ now = reply.at
  /\ reply.status = 401
  /\ isExpiredJwt(reply.header.token, now)

\* the rows of the users other than userId
others(table, userId) == {u \in table : u.id # userId}

\* C30: a request to a profile route made with an access token the API
\* issued leaves the rows of every user other than the token's subject as
\* they were, and a profile it returns is the subject's.
C30_OwnRecordOnly ==
  [][(/\ reply'.endpoint \in privateScope
      /\ reply'.header.token \in AccessTokens
      /\ <<reply, sent, users>>' # <<reply, sent, users>>)
       => LET A == reply'.header.token.claims.sub
          IN /\ others(users', A) = others(users, A)
             /\ (reply'.endpoint = ME /\ reply'.status = 200) => sent'.body.id = A]_vars

\* the subject's own record was updated while another user's row exists
C30_Witness ==
  /\ reply.endpoint \in {PERSONAL, ACCOUNT}
  /\ reply.status = 204
  /\ reply.header.token \in AccessTokens
  /\ reply.userId = reply.header.token.claims.sub
  /\ \E u \in users \ Users0 : u.id = reply.userId
  /\ others(users, reply.userId) # {}
  /\ others(users, reply.userId) \subseteq Users0

====
